---- MODULE Spec2Model ----
(***************************************************************************)
(* grapple_db: the Pagable trait (src/src/lib.rs) and its implementation   *)
(* PagableCharybdisStream (src/src/scylla/stream.rs).                      *)
(*                                                                         *)
(* The wrapped CharybdisModelStream is an external, single-consumer stream *)
(* of Result<E, CharybdisError>.  It is modelled as a finite sequence      *)
(* `source` of "ok" / "err" elements and a cursor `pos`; past the end it   *)
(* yields None.  The item produced by the k-th element is identified by k. *)
(*                                                                         *)
(* next_page and skip_page await once per pulled element, so each call is  *)
(* a sequence of steps: Call, one Pull per `stream.next().await`, Return.  *)
(*                                                                         *)
(* The scylla Client (src/src/scylla/client.rs) and the redis Client       *)
(* (src/src/redis/client.rs) are modelled next to it, each under its own   *)
(* specification: SpecConnect (Client::connect), SpecRedis (the redis      *)
(* commands over a key-value store), SpecScylla (the CRUD calls over a     *)
(* table), SpecParams (CrudParams applied to queries and batches) and      *)
(* SpecFile (Client::execute_file).  The servers are external; they are    *)
(* modelled by the documented effect of each command on the store or       *)
(* table.  SpecAbandon is the stream with calls whose future is dropped.   *)
(***************************************************************************)
EXTENDS Integers, Sequences, FiniteSets, TLC

\* ---------------------------------------------------------------- bounds
MaxLen == 3          \* longest source drawn from Elems
MaxPerPage == 3      \* largest per_page drawn
MaxCalls == 3        \* calls a caller makes on one stream
MaxPageCount == 2    \* largest page_count given to skip_pages

VARIABLES
    source,      \* the elements the wrapped stream yields, in order
    pos,         \* how many of them it has yielded
    per_page,    \* PagableCharybdisStream.per_page
    page_items,  \* PagableCharybdisStream.page_items
    pc,          \* where the caller's current call stands
    i,           \* loop index of the running next_page / skip_page (0 when none runs)
    available,   \* next_page's local counter
    page_count,  \* skip_pages' argument
    j,           \* skip_pages' loop index
    caller,      \* who awaits the running skip_page: "user" or "skip_pages"
    entry,       \* pos when the running user call began
    view,        \* the slice the last page_items() call handed out
    log          \* the completed user calls, oldest first

vars == <<source, pos, per_page, page_items, pc, i, available, page_count, j,
          caller, entry, view, log>>

VARIABLES
    con_params,   \* the ConnectionParams given to scylla Client::connect
    con_pc,       \* the step connect() is about to run
    con_file,     \* index of the next init file
    con_trace,    \* the steps connect() has run, with their outcome
    con_result,   \* "pending", "Ok" (a client), "Err" or "panic"
    store,        \* the redis server: key -> value or Nil
    redis_pc,     \* "idle" or "mdel" (del futures in flight)
    mdel_keys,    \* mdel's key vector
    mdel_results, \* the result of each del future, "pending" until it ran
    redis_last,   \* the last completed redis call, with the store before and after
    table,        \* the scylla table: primary key -> row or Nil
    scylla_pc,    \* "idle", "insert_many" or "delete_many"
    many_rows,    \* the slice given to insert_many / delete_many
    many_size,    \* its chunk_size
    many_at,      \* rows of it already sent
    scylla_last   \* the last completed scylla call, with the table before and after

connectVars == <<con_params, con_pc, con_file, con_trace, con_result>>
redisVars == <<store, redis_pc, mdel_keys, mdel_results, redis_last>>
scyllaVars == <<table, scylla_pc, many_rows, many_size, many_at, scylla_last>>

VARIABLES
    crud_params,  \* the scylla Client's crud_params: Option<CrudParams>
    sent,         \* the last statement handed to the session, as it was executed
    file_text,    \* the text of the file given to execute_file
    file_at,      \* fragments of it already handled
    executed,     \* the statements handed to execute(), oldest first, with outcome
    file_result   \* "none", "running", "Ok", "Err" or "panic"

paramVars == <<crud_params, sent>>
fileVars == <<file_text, file_at, executed, file_result>>
clientVars == <<connectVars, redisVars, scyllaVars, paramVars, fileVars>>
allVars == <<vars, clientVars>>

\* ------------------------------------------------------------ values
Elems == {"ok", "err"}

RECURSIVE SeqsUpTo(_)
SeqsUpTo(n) ==
    IF n = 0 THEN {<<>>}
    ELSE LET S == SeqsUpTo(n - 1)
         IN  S \cup {Append(s, e) : s \in {t \in S : Len(t) = n - 1}, e \in Elems}

Sources == SeqsUpTo(MaxLen)

None == [some |-> FALSE, items |-> <<>>]
Some(items) == [some |-> TRUE, items |-> items]

NoView == [taken |-> FALSE, items |-> <<>>]

\* The worked cases of the specification's section 8, as (source, per_page):
\* P5 (2 items, an error, 3 items; pages of 5), [A,B,C,D,E] in pages of 3,
\* and [A,B,C,D] in pages of 2.
P5Source == <<"ok", "ok", "err", "ok", "ok", "ok">>
Scenarios ==
    { <<P5Source, 5>>,
      <<[k \in 1..5 |-> "ok"], 3>>,
      <<[k \in 1..4 |-> "ok"], 2>> }

\* ------------------------------------------------- the wrapped stream
\* What `self.stream.next().await` yields when p elements were yielded.
StreamElem(src, p) == IF p < Len(src) THEN src[p + 1] ELSE "none"
\* A stream that would hold an error element back.
StreamKeepsErr(src, p) == IF p < Len(src) /\ src[p + 1] = "ok" THEN p + 1 ELSE p
\* The cursor after that poll: an exhausted stream stays exhausted.
StreamAdvance(src, p) == IF p < Len(src) THEN p + 1 ELSE p
\* The item an Ok element at cursor p carries.
StreamItem(p) == p + 1

\* ---------------------------------------------------------- next_page
NextPageKeep(items) == items
NextPageClear(items) == <<>>

NextPageInclusive(k, n) == k <= n
NextPageInLoop(k, n) == k < n

NextPageTakesSome(e) == e # "none"
NextPageTakes(e) == e = "ok"

NextPagePushFront(items, item) == <<item>> \o items
NextPagePush(items, item) == Append(items, item)

NextPageAlwaysSome(avail, items) == Some(items)
NextPageNoneBelowTwo(avail, items) == IF avail <= 1 THEN None ELSE Some(items)
NextPageResult(avail, items) == IF avail = 0 THEN None ELSE Some(items)

\* ---------------------------------------------------------- skip_page
SkipPageKeep(items) == items
SkipPageClear(items) == <<>>

SkipPageInclusive(k, n) == k <= n
SkipPageInLoop(k, n) == k < n

SkipPageBreaksOnErr(e) == e # "ok"
SkipPageBreaks(e) == e = "none"

\* --------------------------------------------------------- skip_pages
SkipPagesInclusive(k, n) == k <= n
SkipPagesInLoop(k, n) == k < n

\* --------------------------------------------------------- page_items
PageItemsDrain(items) == <<>>
\* The buffer after page_items(&self): it is borrowed, not changed.
PageItemsBuffer(items) == items

\* ---------------------------------------------------------------- Init
\* A redis key that holds nothing, a table without the row.
Nil == "nil"
\* No call completed yet.
NoCall == [op |-> "none"]
\* CrudParams::default(): Consistency's default is LocalQuorum.
DefaultCrudParams == [consistency |-> "LocalQuorum", timeout |-> Nil, timestamp |-> Nil]
NoCrudParams == [some |-> FALSE, val |-> DefaultCrudParams]
NoParams == [use_keyspace |-> FALSE, recreate_keyspace |-> FALSE,
             init_files |-> <<>>, migrate |-> FALSE]

\* PagableCharybdisStream::new: nothing pulled, an empty buffer.
StreamNew ==
    /\ pos = 0
    /\ page_items = <<>>
    /\ pc = "idle"
    /\ i = 0
    /\ available = 0
    /\ page_count = 0
    /\ j = 0
    /\ caller = "user"
    /\ entry = 0
    /\ view = NoView
    /\ log = <<>>

\* No stream in use.
StreamIdle == source = <<>> /\ per_page = 0 /\ StreamNew

\* connect() not called.
ConnectIdle ==
    /\ con_params = NoParams
    /\ con_pc = "idle"
    /\ con_file = 0
    /\ con_trace = <<>>
    /\ con_result = "pending"

\* No redis call made, on an empty server.
RedisIdle ==
    /\ store = [k \in {} |-> Nil]
    /\ redis_pc = "idle"
    /\ mdel_keys = <<>>
    /\ mdel_results = <<>>
    /\ redis_last = NoCall

\* No scylla call made, on an empty table.
ScyllaIdle ==
    /\ table = [k \in {} |-> Nil]
    /\ scylla_pc = "idle"
    /\ many_rows = <<>>
    /\ many_size = 0
    /\ many_at = 0
    /\ scylla_last = NoCall

\* No CrudParams configured (from_session, connect: `crud_params: None`) and
\* no statement executed.
ParamsIdle == crud_params = NoCrudParams /\ sent = NoCall

\* execute_file not called.
FileIdle ==
    /\ file_text = <<>>
    /\ file_at = 0
    /\ executed = <<>>
    /\ file_result = "none"

Init ==
    /\ \/ source \in Sources /\ per_page \in 0..MaxPerPage
       \/ \E sc \in Scenarios : source = sc[1] /\ per_page = sc[2]
    /\ StreamNew
    /\ ConnectIdle
    /\ RedisIdle
    /\ ScyllaIdle
    /\ ParamsIdle
    /\ FileIdle

LogEntry(op, arg, ret) ==
    [op |-> op, arg |-> arg, ret |-> ret, from |-> entry, to |-> pos,
     after |-> page_items]

\* ------------------------------------------------------------- actions
NextPageCall ==
    /\ UNCHANGED clientVars
    /\ pc = "idle"
    /\ Len(log) < MaxCalls
    /\ page_items' = NextPageClear(page_items)
    /\ available' = 0
    /\ i' = 0
    /\ pc' = "next_page"
    /\ entry' = pos
    /\ view' = NoView
    /\ UNCHANGED <<source, pos, per_page, page_count, j, caller, log>>

NextPagePull ==
    /\ UNCHANGED clientVars
    /\ pc = "next_page"
    /\ NextPageInLoop(i, per_page)
    /\ pos' = StreamAdvance(source, pos)
    /\ IF NextPageTakes(StreamElem(source, pos))
       THEN /\ page_items' = NextPagePush(page_items, StreamItem(pos))
            /\ available' = available + 1
            /\ i' = i + 1
            /\ pc' = "next_page"
       ELSE /\ pc' = "next_page_break"
            /\ UNCHANGED <<page_items, available, i>>
    /\ UNCHANGED <<source, per_page, page_count, j, caller, entry, view, log>>

NextPageReturn ==
    /\ UNCHANGED clientVars
    /\ \/ pc = "next_page_break"
       \/ pc = "next_page" /\ ~NextPageInLoop(i, per_page)
    /\ log' = Append(log, LogEntry("next_page", 0, NextPageResult(available, page_items)))
    /\ pc' = "idle"
    /\ i' = 0
    /\ available' = 0
    /\ UNCHANGED <<source, pos, per_page, page_items, page_count, j, caller,
                   entry, view>>

SkipPageCall ==
    /\ UNCHANGED clientVars
    /\ pc = "idle"
    /\ Len(log) < MaxCalls
    /\ page_items' = SkipPageClear(page_items)
    /\ i' = 0
    /\ pc' = "skip_page"
    /\ caller' = "user"
    /\ entry' = pos
    /\ view' = NoView
    /\ UNCHANGED <<source, pos, per_page, available, page_count, j, log>>

SkipPagePull ==
    /\ UNCHANGED clientVars
    /\ pc = "skip_page"
    /\ SkipPageInLoop(i, per_page)
    /\ pos' = StreamAdvance(source, pos)
    /\ IF SkipPageBreaks(StreamElem(source, pos))
       THEN pc' = "skip_page_break" /\ i' = i
       ELSE pc' = "skip_page" /\ i' = i + 1
    /\ UNCHANGED <<source, per_page, page_items, available, page_count, j,
                   caller, entry, view, log>>

SkipPageReturn ==
    /\ UNCHANGED clientVars
    /\ \/ pc = "skip_page_break"
       \/ pc = "skip_page" /\ ~SkipPageInLoop(i, per_page)
    /\ IF caller = "skip_pages"
       THEN /\ pc' = "skip_pages"
            /\ j' = j + 1
            /\ log' = log
       ELSE /\ pc' = "idle"
            /\ j' = j
            /\ log' = Append(log, LogEntry("skip_page", 0, None))
    /\ i' = 0
    /\ caller' = "user"
    /\ UNCHANGED <<source, pos, per_page, page_items, available, page_count,
                   entry, view>>

SkipPagesCall(k) ==
    /\ UNCHANGED clientVars
    /\ pc = "idle"
    /\ Len(log) < MaxCalls
    /\ page_count' = k
    /\ j' = 0
    /\ pc' = "skip_pages"
    /\ entry' = pos
    /\ view' = NoView
    /\ UNCHANGED <<source, pos, per_page, page_items, i, available, caller, log>>

SkipPagesIter ==
    /\ UNCHANGED clientVars
    /\ pc = "skip_pages"
    /\ SkipPagesInLoop(j, page_count)
    /\ page_items' = SkipPageClear(page_items)
    /\ i' = 0
    /\ pc' = "skip_page"
    /\ caller' = "skip_pages"
    /\ UNCHANGED <<source, pos, per_page, available, page_count, j, entry, view, log>>

SkipPagesReturn ==
    /\ UNCHANGED clientVars
    /\ pc = "skip_pages"
    /\ ~SkipPagesInLoop(j, page_count)
    /\ log' = Append(log, LogEntry("skip_pages", page_count, None))
    /\ pc' = "idle"
    /\ page_count' = 0
    /\ j' = 0
    /\ UNCHANGED <<source, pos, per_page, page_items, i, available, caller,
                   entry, view>>

PageItems ==
    /\ UNCHANGED clientVars
    /\ pc = "idle"
    /\ view' = [taken |-> TRUE, items |-> page_items]
    /\ page_items' = PageItemsBuffer(page_items)
    /\ UNCHANGED <<source, pos, per_page, pc, i, available,
                   page_count, j, caller, entry, log>>

Next ==
    \/ NextPageCall
    \/ NextPagePull
    \/ NextPageReturn
    \/ SkipPageCall
    \/ SkipPagePull
    \/ SkipPageReturn
    \/ \E k \in -1..MaxPageCount : SkipPagesCall(k)
    \/ SkipPagesIter
    \/ SkipPagesReturn
    \/ PageItems

Spec == Init /\ [][Next]_allVars

\* ------------------------------------------------ the calls as wholes
\* next_page's loop from iteration k on: the cursor, the buffer and
\* `available` when the loop is left.
RECURSIVE NextPageLoop(_, _, _, _, _, _)
NextPageLoop(src, n, p, items, avail, k) ==
    IF ~NextPageInLoop(k, n)
    THEN [pos |-> p, page_items |-> items, available |-> avail]
    ELSE IF NextPageTakes(StreamElem(src, p))
         THEN NextPageLoop(src, n, StreamAdvance(src, p),
                           NextPagePush(items, StreamItem(p)), avail + 1, k + 1)
         ELSE [pos |-> StreamAdvance(src, p), page_items |-> items,
               available |-> avail]

\* One whole next_page() on the stream state st = [pos, page_items].
RunNextPage(src, n, st) ==
    LET r == NextPageLoop(src, n, st.pos, NextPageClear(st.page_items), 0, 0)
    IN  [pos |-> r.pos, page_items |-> r.page_items,
         ret |-> NextPageResult(r.available, r.page_items)]

\* skip_page's loop from iteration k on: the cursor when the loop is left.
RECURSIVE SkipPageLoop(_, _, _, _)
SkipPageLoop(src, n, p, k) ==
    IF ~SkipPageInLoop(k, n) THEN p
    ELSE IF SkipPageBreaks(StreamElem(src, p)) THEN StreamAdvance(src, p)
         ELSE SkipPageLoop(src, n, StreamAdvance(src, p), k + 1)

\* One whole skip_page().
RunSkipPage(src, n, st) ==
    [pos |-> SkipPageLoop(src, n, st.pos, 0),
     page_items |-> SkipPageClear(st.page_items), ret |-> None]

\* ---------------------------------------------- reading the call log
Fresh == [pos |-> 0, page_items |-> <<>>, ret |-> None]

\* The stream state the c-th logged call started from.
StateBefore(c) ==
    [pos |-> log[c].from,
     page_items |-> IF c = 1 THEN <<>> ELSE log[c - 1].after,
     ret |-> None]

IsNextPage(c) == log[c].op = "next_page"
OnlyNextPage(c) == \A d \in 1..c : IsNextPage(d)

ErrorFree(src) == \A k \in 1..Len(src) : src[k] = "ok"

\* k, k+1, ..., k+n-1
Run(k, n) == [d \in 1..n |-> k + d - 1]

\* The pages next_page() returned in the first c calls, concatenated.
RECURSIVE Returned(_)
Returned(c) ==
    IF c = 0 THEN <<>>
    ELSE Returned(c - 1) \o (IF IsNextPage(c) THEN log[c].ret.items ELSE <<>>)

\* skip_page() k times in sequence.
RECURSIVE SkipPageTimes(_, _, _, _)
SkipPageTimes(src, n, st, k) ==
    IF k <= 0 THEN st ELSE SkipPageTimes(src, n, RunSkipPage(src, n, st), k - 1)

\* next_page() c times in sequence.
RECURSIVE NextPageTimes(_, _, _, _)
NextPageTimes(src, n, st, c) ==
    IF c <= 0 THEN st ELSE RunNextPage(src, n, NextPageTimes(src, n, st, c - 1))

\* ====================================================== the claims
\* C1. For per_page = n > 0 and an error-free source of m items, the calls
\* of a caller that only calls next_page() return pages of exactly n items
\* for the first m div n calls, then (when n does not divide m) one page of
\* m mod n items, and None from then on: ceil(m/n) calls return Some.
C1_PageSizes ==
    (per_page > 0 /\ ErrorFree(source)) =>
        \A c \in 1..Len(log) :
            OnlyNextPage(c) =>
                LET m == Len(source)
                    n == per_page
                    full == m \div n
                    rest == m % n
                    pages == IF rest > 0 THEN full + 1 ELSE full
                IN  /\ c <= full =>
                           log[c].ret.some /\ Len(log[c].ret.items) = n
                    /\ (c = full + 1 /\ rest > 0) =>
                           log[c].ret.some /\ Len(log[c].ret.items) = rest
                    /\ c > pages => log[c].ret = None
                    /\ Cardinality({d \in 1..c : log[d].ret.some}) =
                           (IF c < pages THEN c ELSE pages)

\* Three items in pages of two: a full page, the partial page, then None.
C1_Witness ==
    /\ per_page = 2
    /\ source = <<"ok", "ok", "ok">>
    /\ Len(log) = 3
    /\ OnlyNextPage(3)
    /\ Len(log[1].ret.items) = 2
    /\ Len(log[2].ret.items) = 1
    /\ log[3].ret = None

StrictlyIncreasing(s) == \A a, b \in 1..Len(s) : a < b => s[a] < s[b]

\* C2 as stated: on an error-free source the concatenation of the returned
\* pages is a subsequence of the source without repeats, and a caller that
\* only calls next_page() until it returns None has received the whole
\* source.
C2_Original ==
    ErrorFree(source) =>
        LET r == Returned(Len(log))
        IN  /\ StrictlyIncreasing(r)
            /\ \A k \in 1..Len(r) : r[k] \in 1..Len(source)
            /\ (/\ log # <<>>
                /\ OnlyNextPage(Len(log))
                /\ log[Len(log)].ret = None) => r = Run(1, Len(source))

\* C2, amended: the same, the second half for per_page >= 1 only (with
\* per_page = 0 the first next_page() returns None and nothing is read).
C2_OrderedNoLoss ==
    ErrorFree(source) =>
        LET r == Returned(Len(log))
        IN  /\ StrictlyIncreasing(r)
            /\ \A k \in 1..Len(r) : r[k] \in 1..Len(source)
            /\ (/\ per_page >= 1
                /\ log # <<>>
                /\ OnlyNextPage(Len(log))
                /\ log[Len(log)].ret = None) => r = Run(1, Len(source))

\* A caller that only calls next_page() has drained a source of at least
\* two items in two pages and got None.
C2_Witness ==
    /\ ErrorFree(source)
    /\ per_page >= 1
    /\ Len(source) >= 2
    /\ Len(log) = 3
    /\ OnlyNextPage(3)
    /\ log[1].ret.some /\ log[2].ret.some /\ log[3].ret = None
    /\ Returned(3) = Run(1, Len(source))

\* C3. In every state, the states between two pulls of a running
\* next_page() or skip_page() included, the buffer holds at most per_page
\* items.
C3_BufferBounded == Len(page_items) <= per_page

\* Inside a running next_page(), the buffer just filled.
C3_Witness ==
    /\ pc = "next_page"
    /\ per_page >= 2
    /\ Len(page_items) = per_page
    /\ Len(log) >= 1

\* The Ok elements among source[from+1 .. to], as items, in order.
RECURSIVE OkItems(_, _, _)
OkItems(src, from, to) ==
    IF to <= from THEN <<>>
    ELSE OkItems(src, from, to - 1) \o
         (IF src[to] = "ok" THEN <<StreamItem(to - 1)>> ELSE <<>>)

\* C4. When next_page() returns Some(page) the page holds 1..per_page items
\* and is what page_items() returns right after the call; it returns None
\* exactly when the call collected no item.
C4_NoEmptyPage ==
    /\ \A c \in 1..Len(log) :
           IsNextPage(c) =>
               /\ log[c].ret.some =>
                      /\ Len(log[c].ret.items) \in 1..per_page
                      /\ log[c].ret.items = log[c].after
               /\ (log[c].ret = None) <=>
                      (OkItems(source, log[c].from, log[c].to) = <<>>)
    /\ (pc = "idle" /\ log # <<>> /\ IsNextPage(Len(log))
            /\ log[Len(log)].ret.some) =>
           /\ page_items = log[Len(log)].ret.items
           /\ view.taken => view.items = log[Len(log)].ret.items

\* page_items() called after a next_page() that returned a partial page,
\* and a next_page() that returned None.
C4_Witness ==
    /\ pc = "idle"
    /\ Len(log) = 2
    /\ OnlyNextPage(2)
    /\ \/ /\ log[2].ret.some
          /\ Len(log[2].ret.items) < per_page
          /\ view.taken
       \/ log[2].ret = None /\ log[1].ret.some

\* C5 as stated: once a next_page() call has returned None, every later
\* next_page() call returns None and leaves page_items() empty, whatever
\* the source yields.
C5_ExhaustionStable ==
    \A c, d \in 1..Len(log) :
        (c < d /\ IsNextPage(c) /\ log[c].ret = None /\ IsNextPage(d)) =>
            log[d].ret = None /\ log[d].after = <<>>

\* The elements source[from+1 .. to] are all Ok.
AllOk(src, from, to) == \A k \in (from + 1)..to : src[k] = "ok"

\* The c-th call is a next_page() that directly follows a skip_page().
NextAfterSkip(c) == c >= 2 /\ log[c - 1].op = "skip_page" /\ IsNextPage(c)

\* skip_page(); next_page() against next_page(); next_page() from the state
\* the skip started in: the same result, buffer and source position.
SameAsSecondOfTwo(c) ==
    LET first == RunNextPage(source, per_page, StateBefore(c - 1))
        second == RunNextPage(source, per_page, first)
    IN  /\ log[c].ret = second.ret
        /\ log[c].after = second.page_items
        /\ log[c].to = second.pos

\* C6 as stated: for every source, skip_page() followed by next_page()
\* gives what the second of two successive next_page() calls gives, and the
\* same source position.
C6_Original ==
    \A c \in 1..Len(log) : NextAfterSkip(c) => SameAsSecondOfTwo(c)

\* C6, amended: the same, provided no element the skip_page() discarded
\* is an error element.
C6_SkipIsReadAndDiscard ==
    \A c \in 1..Len(log) :
        (NextAfterSkip(c) /\ AllOk(source, log[c - 1].from, log[c - 1].to)) =>
            SameAsSecondOfTwo(c)

\* [A,B,C,D] in pages of 2: skip_page() discards A,B and next_page()
\* returns [C,D].
C6_Witness ==
    /\ source = <<"ok", "ok", "ok", "ok">>
    /\ per_page = 2
    /\ Len(log) = 2
    /\ log[1].op = "skip_page"
    /\ log[1].after = <<>>
    /\ IsNextPage(2)
    /\ log[2].ret = Some(<<3, 4>>)

\* C7. For every k >= 0 and every source, skip_pages(k) followed by
\* next_page() returns the same page and leaves the same buffer and source
\* position as skip_page() called k times followed by next_page().
C7_SkipPagesIsKSkips ==
    \A c \in 2..Len(log) :
        (log[c - 1].op = "skip_pages" /\ log[c - 1].arg >= 0 /\ IsNextPage(c)) =>
            LET skipped == SkipPageTimes(source, per_page, StateBefore(c - 1),
                                         log[c - 1].arg)
                then == RunNextPage(source, per_page, skipped)
            IN  /\ log[c - 1].to = skipped.pos
                /\ log[c - 1].after = skipped.page_items
                /\ log[c].ret = then.ret
                /\ log[c].after = then.page_items
                /\ log[c].to = then.pos

\* skip_pages(2) over two whole pages, then a page is returned.
C7_Witness ==
    /\ Len(log) = 2
    /\ per_page >= 1
    /\ log[1].op = "skip_pages"
    /\ log[1].arg = 2
    /\ log[1].to = 2 * per_page
    /\ IsNextPage(2)
    /\ log[2].ret.some

\* C8. If during next_page() the source yields k < per_page Ok elements and
\* then an error element, the call stops pulling there, the page is those
\* k items in order, and the call returns Some of them when k >= 1 and
\* None when k = 0.
C8_ErrorTruncates ==
    \A c \in 1..Len(log) :
        IsNextPage(c) =>
            \A k \in 0..(per_page - 1) :
                LET f == log[c].from
                IN  (/\ f + k + 1 <= Len(source)
                     /\ AllOk(source, f, f + k)
                     /\ source[f + k + 1] = "err") =>
                        /\ log[c].to = f + k + 1
                        /\ log[c].after = Run(f + 1, k)
                        /\ log[c].ret = IF k >= 1 THEN Some(Run(f + 1, k)) ELSE None

\* 2 items, an error, 3 items, pages of 5: the first page is the 2 items.
C8_Witness ==
    /\ source = P5Source
    /\ per_page = 5
    /\ Len(log) = 1
    /\ IsNextPage(1)
    /\ log[1].ret = Some(<<1, 2>>)
    /\ page_items = <<1, 2>>

HasErr(src) == \E k \in 1..Len(src) : src[k] = "err"
FirstErr(src) == CHOOSE e \in 1..Len(src) : src[e] = "err" /\ AllOk(src, 0, e - 1)

\* C9. Let the source be p ++ [error] ++ r with p error-free.  Each
\* next_page() call of a caller that only calls next_page(), up to and
\* including the call that meets the error, returns what the corresponding
\* call returns on the source p alone; and no returned page holds an error
\* element.
C9_ErrorLooksLikeEnd ==
    /\ HasErr(source) =>
           LET e == FirstErr(source)
               p == SubSeq(source, 1, e - 1)
           IN  \A c \in 1..Len(log) :
                   (OnlyNextPage(c) /\ log[c].from < e) =>
                       log[c].ret = NextPageTimes(p, per_page, Fresh, c).ret
    /\ \A c \in 1..Len(log) :
           \A k \in 1..Len(log[c].ret.items) :
               /\ log[c].ret.items[k] \in 1..Len(source)
               /\ source[log[c].ret.items[k]] = "ok"

\* One item, an error, one item, pages of 1: the second call meets the
\* error and returns None, as it would at the end of [item].
C9_Witness ==
    /\ source = <<"ok", "err", "ok">>
    /\ per_page = 1
    /\ Len(log) = 2
    /\ OnlyNextPage(2)
    /\ log[1].ret = Some(<<1>>)
    /\ log[2].ret = None
    /\ log[2].to = 2

\* C10. After a next_page() call page_items() holds exactly the Ok items
\* pulled during that call, and none pulled by an earlier call.
C10_LatestFetchOnly ==
    /\ \A c \in 1..Len(log) :
           IsNextPage(c) =>
               /\ log[c].after = OkItems(source, log[c].from, log[c].to)
               /\ \A k \in 1..Len(log[c].after) : log[c].after[k] > log[c].from
    /\ (pc = "idle" /\ log # <<>> /\ IsNextPage(Len(log))) =>
           /\ page_items = log[Len(log)].after
           /\ view.taken => view.items = log[Len(log)].after

\* page_items() after a second non-empty page, the first page not empty.
C10_Witness ==
    /\ pc = "idle"
    /\ Len(log) = 2
    /\ log[1].after # <<>>
    /\ IsNextPage(2)
    /\ log[2].ret.some
    /\ view.taken
    /\ view.items = Run(log[2].from + 1, Len(page_items))

IsSkip(c) ==
    \/ log[c].op = "skip_page"
    \/ log[c].op = "skip_pages" /\ log[c].arg >= 1

\* C11. page_items() is empty on a freshly constructed stream and after
\* every completed skip_page() or skip_pages(k >= 1), whatever page was
\* buffered before.
C11_EmptyAfterSkip ==
    /\ \A c \in 1..Len(log) : IsSkip(c) => log[c].after = <<>>
    /\ (pc = "idle" /\ (log = <<>> \/ IsSkip(Len(log)))) =>
           /\ page_items = <<>>
           /\ view.taken => view.items = <<>>

\* page_items() after a skip_pages(k >= 1) that followed a fetched page.
C11_Witness ==
    /\ pc = "idle"
    /\ Len(log) = 2
    /\ IsNextPage(1)
    /\ log[1].after # <<>>
    /\ log[2].op = "skip_pages"
    /\ log[2].arg >= 1
    /\ view.taken
    /\ view.items = <<>>

Max(a, b) == IF a >= b THEN a ELSE b

\* C12. Once the source is exhausted, skip_page() and every remaining
\* iteration of skip_pages(count) consume no further source element and
\* leave the buffer empty, and skip_pages leaves its loop only after all
\* count iterations.
C12_SkipAfterEndIsNoOp ==
    /\ \A c \in 1..Len(log) :
           (log[c].op \in {"skip_page", "skip_pages"}
                /\ log[c].from = Len(source)) =>
               /\ log[c].to = log[c].from
               /\ IsSkip(c) => log[c].after = <<>>
    /\ (pc \in {"skip_page", "skip_page_break"} /\ entry = Len(source)) =>
           pos = entry /\ page_items = <<>>
    /\ LET st == RunSkipPage(source, per_page,
                             [pos |-> Len(source), page_items |-> page_items])
       IN  st.pos = Len(source) /\ st.page_items = <<>>
    /\ pc \in {"skip_page", "skip_page_break"} /\ caller = "skip_pages" =>
           j < page_count
    /\ pc = "skip_pages" => j \in 0..Max(page_count, 0)

\* skip_pages(2) runs into the end of a source shorter than two pages, and
\* a skip_page() after it changes nothing.
C12_Witness ==
    /\ pc = "idle"
    /\ per_page >= 2
    /\ Len(source) >= 1
    /\ Len(log) = 2
    /\ log[1].op = "skip_pages"
    /\ log[1].arg = 2
    /\ log[1].to = Len(source)
    /\ Len(source) < 2 * per_page
    /\ log[2].op = "skip_page"
    /\ log[2].from = Len(source)
    /\ log[2].to = Len(source)
    /\ page_items = <<>>

\* ------------------------------------------- the documented page loop
\* `while let Some(items) = stream.next_page().await { .. }` (the module
\* doc example): the loop is left at the first None.
LoopDone == \E c \in 1..Len(log) : IsNextPage(c) /\ ~log[c].ret.some

\* The loop head: next_page() is called again while no call returned None.
WhileLetNextPage ==
    /\ UNCHANGED clientVars
    /\ pc = "idle"
    /\ ~LoopDone
    /\ page_items' = NextPageClear(page_items)
    /\ available' = 0
    /\ i' = 0
    /\ pc' = "next_page"
    /\ entry' = pos
    /\ view' = NoView
    /\ UNCHANGED <<source, pos, per_page, page_count, j, caller, log>>

\* The loop, with skip_page() calls (at most MaxCalls logged calls before
\* the last of them) wherever the caller is between two calls.
LoopNext ==
    \/ WhileLetNextPage
    \/ NextPagePull
    \/ NextPageReturn
    \/ SkipPageCall
    \/ SkipPagePull
    \/ SkipPageReturn

\* The wrapped stream answers every poll and the caller keeps running its
\* loop, so a pending pull, a pending return and the loop head each happen;
\* whether the caller skips is left open.
SpecLoop ==
    /\ Init
    /\ [][LoopNext]_allVars
    /\ WF_allVars(WhileLetNextPage)
    /\ WF_allVars(NextPagePull)
    /\ WF_allVars(NextPageReturn)
    /\ WF_allVars(SkipPagePull)
    /\ WF_allVars(SkipPageReturn)

\* `self.stream.next().await` evaluations of the running call so far: one
\* per completed iteration, and the one that broke the loop.
Pulls == IF pc \in {"next_page_break", "skip_page_break"} THEN i + 1 ELSE i

PullsBounded ==
    /\ pc # "idle" => Pulls <= per_page
    /\ \A c \in 1..Len(log) : log[c].to - log[c].from <= per_page

\* C13. Over a finite source every next_page() and skip_page() call makes
\* at most per_page pulls and then returns (for per_page >= 1, and for
\* per_page = 0 where it pulls nothing), and the caller's
\* `while let Some(..) = next_page().await` loop eventually gets None.
C13_LoopTerminates ==
    /\ [](PullsBounded)
    /\ [](pc # "idle" => <>(pc = "idle"))
    /\ <>(LoopDone)

\* Three single-item pages, then the None that ends the loop.
C13_Witness ==
    /\ pc = "idle"
    /\ per_page = 1
    /\ Len(source) = 3
    /\ Len(log) = 4
    /\ OnlyNextPage(4)
    /\ \A c \in 1..3 : log[c].ret.some /\ log[c].to - log[c].from = per_page
    /\ ~log[4].ret.some

\* ------------------------------------------------- replaying the log
\* The c-th logged call as a whole, from the state the call before it left.
Replay(c) ==
    IF log[c].op = "next_page" THEN RunNextPage(source, per_page, StateBefore(c))
    ELSE IF log[c].op = "skip_page" THEN RunSkipPage(source, per_page, StateBefore(c))
    ELSE SkipPageTimes(source, per_page, StateBefore(c), log[c].arg)

\* The logged calls are what the same calls give with no page_items() call
\* anywhere between them, and the stream rests where the last one left it.
ReplaysWithoutAccessor ==
    /\ \A c \in 1..Len(log) :
           /\ log[c].from = (IF c = 1 THEN 0 ELSE log[c - 1].to)
           /\ Replay(c).pos = log[c].to
           /\ Replay(c).page_items = log[c].after
           /\ Replay(c).ret = log[c].ret
    /\ pc = "idle" =>
           /\ pos = (IF log = <<>> THEN 0 ELSE log[Len(log)].to)
           /\ page_items = (IF log = <<>> THEN <<>> ELSE log[Len(log)].after)

\* A step that is a page_items() call.
PageItemsStep == pc = "idle" /\ pc' = "idle" /\ view'.taken

\* What a next_page() / skip_page() called now would give.
NextPageNow == RunNextPage(source, per_page, [pos |-> pos, page_items |-> page_items])
SkipPageNow == RunSkipPage(source, per_page, [pos |-> pos, page_items |-> page_items])

\* C14. page_items() is a pure accessor: a call hands out the buffer and
\* leaves the buffer, the source and its position as they were, so any
\* number of calls between two operations leaves every later next_page()
\* and skip_page() result what it is without them.
C14_PureAccessor ==
    /\ [](ReplaysWithoutAccessor)
    /\ [](view.taken => view.items = page_items)
    /\ [][PageItemsStep =>
            /\ page_items' = page_items
            /\ pos' = pos
            /\ source' = source
            /\ per_page' = per_page
            /\ log' = log
            /\ NextPageNow' = NextPageNow
            /\ SkipPageNow' = SkipPageNow]_allVars

\* page_items() read after the second of two non-empty pages.
C14_Witness ==
    /\ pc = "idle"
    /\ Len(log) = 2
    /\ OnlyNextPage(2)
    /\ log[1].ret.some
    /\ log[2].ret.some
    /\ view.taken
    /\ view.items = log[2].ret.items
    /\ page_items = log[2].after

\* ---------------------------------------------------- the page counter
\* page_index, as the specification describes it (section 3 and 4.1): it
\* starts at 0 and next_page() advances it by one when it produces a
\* non-empty page.  What skip_page() does to it is left open there, so the
\* counter is followed over next_page() calls only.
PageIndexNew == 0
PageIndexAfterNextPage(index, ret) == IF ret.some THEN index + 1 ELSE index

\* page_index() after the first c logged calls, all of them next_page().
RECURSIVE PageIndex(_)
PageIndex(c) ==
    IF c = 0 THEN PageIndexNew
    ELSE PageIndexAfterNextPage(PageIndex(c - 1), log[c].ret)

NonEmptyPages(c) == {d \in 1..c : log[d].after # <<>>}

IsSkipPage(c) == log[c].op = "skip_page"
\* The elements left in the source when the cursor is at p.
Remaining(p) == Len(source) - p
Least(a, b) == IF a <= b THEN a ELSE b

\* C23. skip_page() stops early only at the end of the stream: an error
\* element counts as one of the per_page discarded elements and does not
\* end the skip, so the call consumes exactly min(per_page, remaining)
\* elements - where next_page() stops at the first error.
C23_SkipCountsErrors ==
    /\ \A c \in 1..Len(log) :
           IsSkipPage(c) =>
               /\ log[c].to - log[c].from = Least(per_page, Remaining(log[c].from))
               /\ log[c].after = <<>>
    /\ (pc = "skip_page" /\ caller = "user") => pos - entry = i
    /\ pc = "skip_page_break" => pos = Len(source)
    /\ \A c \in 1..Len(log) :
           (IsNextPage(c) /\ ~AllOk(source, log[c].from, log[c].to)) =>
               /\ source[log[c].to] = "err"
               /\ AllOk(source, log[c].from, log[c].to - 1)

\* A skip_page() that went on past an error element and discarded a whole
\* page.
C23_Witness ==
    /\ per_page >= 2
    /\ Len(log) >= 1
    /\ IsSkipPage(1)
    /\ Len(source) >= 2
    /\ source[1] = "err"
    /\ log[1].to = per_page

\* The c-th call is a next_page() that buffered fewer than per_page items
\* and stopped on an error element.
TruncatedByErr(c) ==
    /\ IsNextPage(c)
    /\ Len(log[c].after) < per_page
    /\ log[c].from + Len(log[c].after) < Len(source)

\* C24. next_page() consumes the error element that truncates a page: a
\* call that buffers k items and then meets an error advances the source by
\* k + 1, so the following next_page() starts at the first element after
\* the error (the error is not delivered again, the items after it are not
\* lost); a call that fills the page advances the source by exactly
\* per_page elements and does not look ahead.
C24_ErrorConsumed ==
    \A c \in 1..Len(log) :
        IsNextPage(c) =>
            LET f == log[c].from
                k == Len(log[c].after)
            IN  /\ f + k <= Len(source)
                /\ AllOk(source, f, f + k)
                /\ log[c].after = Run(f + 1, k)
                /\ k = per_page => log[c].to = f + per_page
                /\ TruncatedByErr(c) =>
                       /\ source[f + k + 1] = "err"
                       /\ log[c].to = f + k + 1
                /\ (k < per_page /\ ~TruncatedByErr(c)) => log[c].to = Len(source)
                /\ (c >= 2 /\ TruncatedByErr(c - 1)) =>
                       /\ f = log[c - 1].to
                       /\ log[c].ret.some => log[c].ret.items[1] = log[c - 1].to + 1
                       /\ (f < Len(source) /\ source[f + 1] = "ok") => log[c].ret.some

\* 2 items, an error, 3 items in pages of 5: the first call returns the 2
\* items and consumes the error, the second returns the 3 items after it.
C24_Witness ==
    /\ source = P5Source
    /\ per_page = 5
    /\ Len(log) = 2
    /\ OnlyNextPage(2)
    /\ log[1].ret = Some(<<1, 2>>)
    /\ log[1].to = 3
    /\ log[2].ret = Some(<<4, 5, 6>>)

\* The running call has pulled at least one element from the source.
Pulled == i > 0 \/ pc \in {"next_page_break", "skip_page_break"}

\* C25. A stream constructed with per_page = 0 is accepted and is inert:
\* every next_page() returns None and every skip_page() returns without
\* pulling an element, though the source still holds items; the source
\* position never changes.
C25_ZeroPerPageInert ==
    per_page = 0 =>
        /\ pos = 0
        /\ page_items = <<>>
        /\ ~Pulled
        /\ \A c \in 1..Len(log) :
               /\ log[c].ret = None
               /\ log[c].from = 0
               /\ log[c].to = 0
               /\ log[c].after = <<>>

\* Three items, per_page = 0: next_page() gave None, skip_page() returned,
\* and nothing was pulled.
C25_Witness ==
    /\ per_page = 0
    /\ Len(source) = 3
    /\ ErrorFree(source)
    /\ pc = "idle"
    /\ Len(log) = 3
    /\ IsNextPage(1)
    /\ IsSkipPage(2)
    /\ IsNextPage(3)
    /\ pos = 0

\* The buffer when the c-th logged call began.
BufferBefore(c) == IF c = 1 THEN <<>> ELSE log[c - 1].after

Abandon ==
    /\ UNCHANGED clientVars
    /\ \/ pc = "next_page" /\ NextPageInLoop(i, per_page)
       \/ pc = "skip_page" /\ SkipPageInLoop(i, per_page) /\ caller = "user"
    /\ log' = Append(log, LogEntry(IF pc = "next_page" THEN "next_page_abandoned"
                                   ELSE "skip_page_abandoned", i, None))
    /\ pc' = "idle"
    /\ i' = 0
    /\ available' = 0
    /\ UNCHANGED <<source, pos, per_page, page_items, page_count, j, caller,
                   entry, view>>

NextAbandon ==
    \/ NextPageCall
    \/ NextPagePull
    \/ NextPageReturn
    \/ SkipPageCall
    \/ SkipPagePull
    \/ SkipPageReturn
    \/ Abandon

SpecAbandon == Init /\ [][NextAbandon]_allVars

IsAbandoned(c) == log[c].op \in {"next_page_abandoned", "skip_page_abandoned"}
\* The source position when the c-th logged call, completed or abandoned, ended.
PulledSoFar(c) == IF c = 0 THEN 0 ELSE log[c].to

\* C27. If a running next_page() or skip_page() is abandoned after j pulls
\* the stream stays usable: the buffer holds at most per_page items, and the
\* next next_page() clears the buffer and returns a contiguous run of the
\* source that starts at the first element not yet pulled; the j elements
\* the abandoned call pulled are in no returned page.
C27_AbandonLeavesUsable ==
    /\ Len(page_items) <= per_page
    /\ \A c \in 1..Len(log) :
           IsAbandoned(c) =>
               /\ log[c].from = PulledSoFar(c - 1)
               /\ log[c].to = log[c].from + log[c].arg
    /\ \A c \in 1..Len(log) :
           IsNextPage(c) =>
               LET f == log[c].from
                   k == Len(log[c].after)
               IN  /\ f = PulledSoFar(c - 1)
                   /\ k <= per_page
                   /\ f + k <= Len(source)
                   /\ log[c].after = Run(f + 1, k)
                   /\ log[c].to \in {f + k, f + k + 1}
                   /\ log[c].ret = IF k = 0 THEN None ELSE Some(Run(f + 1, k))
                   /\ \A a \in 1..Len(log) :
                          IsAbandoned(a) =>
                              \A n \in 1..k :
                                  ~(log[a].from < log[c].after[n]
                                      /\ log[c].after[n] <= log[a].to)

\* Three items in pages of 2: a next_page() is dropped with item 1 in the
\* buffer, the next call returns [2, 3].
C27_Witness ==
    /\ per_page = 2
    /\ Len(log) = 2
    /\ log[1].op = "next_page_abandoned"
    /\ log[1].arg = 1
    /\ log[1].after = <<1>>
    /\ IsNextPage(2)
    /\ log[2].ret = Some(<<2, 3>>)
    /\ page_items = <<2, 3>>

\* ============================================ scylla Client::connect
\* An init file, by what happens when it is executed: every statement
\* runs, a statement is rejected by the server, or the file cannot be read.
InitFiles == {"ok", "bad_query", "unreadable"}
InitFileLists == {<<>>} \cup {<<f>> : f \in InitFiles}
                     \cup {<<f, g>> : f, g \in InitFiles}

ConnectionParams ==
    [use_keyspace : BOOLEAN, recreate_keyspace : BOOLEAN,
     init_files : InitFileLists, migrate : BOOLEAN]

\* execute_file: read_to_string(..).unwrap_or_else(|_| panic!(..)), then
\* `self.execute(query, &[]).await?` for each statement.
ExecuteFileResult(file) ==
    IF file = "unreadable" THEN "panic"
    ELSE IF file = "bad_query" THEN "Err"
    ELSE "Ok"

\* migrate: `migration.run().await; Ok(())`.  run() returns nothing, so a
\* migration that fails is either passed over or ends in a panic of run().
MigrateResults(ran) == IF ran THEN {"Ok"} ELSE {"Ok", "panic"}

\* The step after the keyspace block, and after the init files.
AfterKeyspace == "init_files"
AfterInitFiles(params) == IF params.migrate THEN "migrate" ELSE "return"

Ran(step, ok) == [step |-> step, ok |-> ok, file |-> 0]

\* `<step>.await?` in connect(): on Ok go on to `next`, on Err return it.
ConnectAwait(step, ok, next) ==
    /\ con_trace' = Append(con_trace, Ran(step, ok))
    /\ IF ok
       THEN con_pc' = next /\ con_result' = con_result
       ELSE con_pc' = "done" /\ con_result' = "Err"

ConnectCall(params) ==
    /\ con_pc = "idle"
    /\ con_params' = params
    /\ con_pc' = "caching"
    /\ UNCHANGED <<con_file, con_trace, con_result>>
    /\ UNCHANGED <<vars, redisVars, scyllaVars, paramVars, fileVars>>

\* con_params.caching().await?
ConnectCaching(ok) ==
    /\ con_pc = "caching"
    /\ ConnectAwait("caching", ok,
                    IF ~con_params.use_keyspace THEN AfterKeyspace
                    ELSE IF con_params.recreate_keyspace THEN "drop_keyspace"
                    ELSE "create_keyspace")
    /\ UNCHANGED <<con_params, con_file>>
    /\ UNCHANGED <<vars, redisVars, scyllaVars, paramVars, fileVars>>

\* recreate_keyspace: self.drop_keyspace(name).await?
ConnectDropKeyspace(ok) ==
    /\ con_pc = "drop_keyspace"
    /\ ConnectAwait("drop_keyspace", ok, "create_keyspace")
    /\ UNCHANGED <<con_params, con_file>>
    /\ UNCHANGED <<vars, redisVars, scyllaVars, paramVars, fileVars>>

\* create_keyspace(keyspace).await?, called by connect() or as the second
\* half of recreate_keyspace
ConnectCreateKeyspace(ok) ==
    /\ con_pc = "create_keyspace"
    /\ ConnectAwait("create_keyspace", ok, "use_keyspace")
    /\ UNCHANGED <<con_params, con_file>>
    /\ UNCHANGED <<vars, redisVars, scyllaVars, paramVars, fileVars>>

\* client.use_keyspace(keyspace).await?
ConnectUseKeyspace(ok) ==
    /\ con_pc = "use_keyspace"
    /\ ConnectAwait("use_keyspace", ok, AfterKeyspace)
    /\ UNCHANGED <<con_params, con_file>>
    /\ UNCHANGED <<vars, redisVars, scyllaVars, paramVars, fileVars>>

\* for filename in &con_params.init_files { client.execute_file(filename).await?; }
ConnectExecuteFile ==
    /\ con_pc = "init_files"
    /\ con_file < Len(con_params.init_files)
    /\ LET r == ExecuteFileResult(con_params.init_files[con_file + 1])
       IN  /\ con_trace' = Append(con_trace,
                                  [step |-> "execute_file", ok |-> r = "Ok",
                                   file |-> con_file + 1])
           /\ IF r = "Ok"
              THEN con_pc' = "init_files" /\ con_result' = con_result
              ELSE con_pc' = "done" /\ con_result' = r
    /\ con_file' = con_file + 1
    /\ UNCHANGED con_params
    /\ UNCHANGED <<vars, redisVars, scyllaVars, paramVars, fileVars>>

ConnectInitFilesDone ==
    /\ con_pc = "init_files"
    /\ con_file = Len(con_params.init_files)
    /\ con_pc' = AfterInitFiles(con_params)
    /\ UNCHANGED <<con_params, con_file, con_trace, con_result>>
    /\ UNCHANGED <<vars, redisVars, scyllaVars, paramVars, fileVars>>

\* Self::migrate(..).await?
ConnectMigrate(ran) ==
    /\ con_pc = "migrate"
    /\ con_trace' = Append(con_trace, Ran("migrate", ran))
    /\ \E r \in MigrateResults(ran) :
           IF r = "Ok"
           THEN con_pc' = "return" /\ con_result' = con_result
           ELSE con_pc' = "done" /\ con_result' = r
    /\ UNCHANGED <<con_params, con_file>>
    /\ UNCHANGED <<vars, redisVars, scyllaVars, paramVars, fileVars>>

\* Ok(client)
ConnectReturn ==
    /\ con_pc = "return"
    /\ con_pc' = "done"
    /\ con_result' = "Ok"
    /\ UNCHANGED <<con_params, con_file, con_trace>>
    /\ UNCHANGED <<vars, redisVars, scyllaVars, paramVars, fileVars>>

InitConnect ==
    StreamIdle /\ ConnectIdle /\ RedisIdle /\ ScyllaIdle /\ ParamsIdle /\ FileIdle

NextConnect ==
    \/ \E params \in ConnectionParams : ConnectCall(params)
    \/ \E ok \in BOOLEAN : ConnectCaching(ok)
    \/ \E ok \in BOOLEAN : ConnectDropKeyspace(ok)
    \/ \E ok \in BOOLEAN : ConnectCreateKeyspace(ok)
    \/ \E ok \in BOOLEAN : ConnectUseKeyspace(ok)
    \/ ConnectExecuteFile
    \/ ConnectInitFilesDone
    \/ \E ran \in BOOLEAN : ConnectMigrate(ran)
    \/ ConnectReturn

SpecConnect == InitConnect /\ [][NextConnect]_allVars

\* The documented Connection Process for params, as a sequence of steps.
DocumentedSteps(params) ==
    <<"caching">>
    \o (IF ~params.use_keyspace THEN <<>>
        ELSE (IF params.recreate_keyspace
              THEN <<"drop_keyspace", "create_keyspace">>
              ELSE <<"create_keyspace">>) \o <<"use_keyspace">>)
    \o [k \in 1..Len(params.init_files) |-> "execute_file"]
    \o (IF params.migrate THEN <<"migrate">> ELSE <<>>)

\* The steps run so far are the first ones of the documented sequence, and
\* the init files are taken in list order.
ConnectInOrder ==
    /\ Len(con_trace) <= Len(DocumentedSteps(con_params))
    /\ \A k \in 1..Len(con_trace) :
           /\ con_trace[k].step = DocumentedSteps(con_params)[k]
           /\ con_trace[k].step = "execute_file" =>
                  /\ con_trace[k].file >= 1
                  /\ k > con_trace[k].file
                  /\ con_trace[k - con_trace[k].file + 1].file = 1
                  /\ con_trace[k - con_trace[k].file].step # "execute_file"
    /\ con_result = "Ok" => Len(con_trace) = Len(DocumentedSteps(con_params))

\* A failed step is the last one run, and connect() has returned Err: no
\* client is returned after a failure.
ConnectFailureIsErr ==
    \A k \in 1..Len(con_trace) :
        ~con_trace[k].ok => k = Len(con_trace) /\ con_result = "Err"

\* C16. connect() runs its steps in the documented order, and a step that
\* fails makes it return Err with no later step run and no client returned.
C16_ConnectOrderAndFailure == ConnectInOrder /\ ConnectFailureIsErr

\* ==================================================== the redis Client
Keys == {"a", "b"}
Values == {"v1", "v2"}

\* A RedisModel: what its key() gives, a key or (keyed = FALSE, the key
\* field unused) an Err, and what its value() gives, a serialized value or
\* the Err of a value that cannot be serialized.
Models ==
    {m \in [key : Keys, keyed : BOOLEAN, value : Values \cup {"unserializable"}] :
        ~m.keyed => m.key = "a"}
ModelLists == {<<>>} \cup {<<m>> : m \in Models} \cup {<<m, n>> : m, n \in Models}
KeyLists == {<<>>} \cup {<<k>> : k \in Keys} \cup {<<k, l>> : k, l \in Keys}

Ok(v) == [ok |-> TRUE, val |-> v]
Err == [ok |-> FALSE, val |-> "error"]

\* What becomes of a command: it is answered, no connection could be taken
\* from the pool (`self.connection().await?`), or it ran on the server and
\* its reply did not arrive (`connection.<cmd>(..).await?`).
Transports == {"ok", "no_connection", "reply_lost"}

\* ------------------------------------------------ the server's commands
\* SET / MSET of the pairs in order: a later pair of the same key wins.
RECURSIVE SetAll(_, _)
SetAll(st, pairs) ==
    IF pairs = <<>> THEN st
    ELSE SetAll([st EXCEPT ![pairs[1][1]] = pairs[1][2]], Tail(pairs))

AnyExists(st, pairs) == \E n \in 1..Len(pairs) : st[pairs[n][1]] # Nil

\* The store and the reply after one command, as Redis documents them.
RedisExec(cmd, st, arg) ==
    IF cmd = "DEL"
    THEN [store |-> [st EXCEPT ![arg] = Nil],
          reply |-> IF st[arg] # Nil THEN ":1" ELSE ":0"]
    ELSE IF arg = <<>> THEN [store |-> st, reply |-> "-ERR"]
    ELSE IF cmd \in {"SET", "MSET"} THEN [store |-> SetAll(st, arg), reply |-> "+OK"]
    ELSE IF AnyExists(st, arg) THEN [store |-> st, reply |-> ":0"]
    ELSE [store |-> SetAll(st, arg), reply |-> ":1"]

\* ---------------------------------------------------- the client's side
\* `let mut connection = self.connection().await?; Ok(connection.<cmd>(..).await?)`
Request(t, cmd, st, arg) ==
    IF t = "no_connection" THEN [store |-> st, reply |-> "-ERR"]
    ELSE LET x == RedisExec(cmd, st, arg)
         IN  IF t = "reply_lost" THEN [store |-> x.store, reply |-> "-ERR"] ELSE x

\* FromRedisValue for bool: an integer other than 0, or the status OK.
AsBool(reply) == IF reply = "-ERR" THEN Err ELSE Ok(reply \in {":1", "+OK"})

\* FromRedisValue for String: the status OK as "OK".
AsString(reply) == IF reply = "-ERR" THEN Err ELSE Ok("OK")

Pair(m) == <<m.key, m.value>>
KeyOk(m) == m.keyed
ValueOk(m) == m.value # "unserializable"
ModelOk(m) == KeyOk(m) /\ ValueOk(m)

\* RedisModelCollector::collect: filter_map over the models, keeping the
\* pairs whose key() and value() are both Ok.
CollectAll(models) == [n \in 1..Len(models) |-> Pair(models[n])]
Collect(models) ==
    LET kept == SelectSeq(models, ModelOk)
    IN  [n \in 1..Len(kept) |-> Pair(kept[n])]

\* The command each method sends.
SetNxSendsSet == "SET"
SetNxCommand == "SETNX"
MSetNxSendsMSet == "MSET"
MSetNxCommand == "MSETNX"

\* mdel's result: the del futures that resolved to Ok(true).
MdelCountsAllOk(results) ==
    Cardinality({n \in 1..Len(results) : results[n] \in {"true", "false"}})
MdelCount(results) == Cardinality({n \in 1..Len(results) : results[n] = "true"})

\* map_keys: the keys as owned strings, in order.
MapKeys(keys) == keys

RedisCall(op, arg, ret, st, transport) ==
    [op |-> op, arg |-> arg, ret |-> ret, before |-> store, after |-> st,
     transport |-> transport]

\* Client::del(key): the store after it and the Result<bool> it returns.
DelResult(t, st, k) ==
    LET x == Request(t, "DEL", st, k)
    IN  [store |-> x.store, ret |-> AsBool(x.reply)]

\* Client::set_nx(model): key()? and value()? are taken before the command
\* is sent, so a key or value that cannot be produced returns Err.
SetNxResult(t, st, m) ==
    IF ~ModelOk(m) THEN [store |-> st, ret |-> Err]
    ELSE LET x == Request(t, SetNxCommand, st, <<Pair(m)>>)
         IN  [store |-> x.store, ret |-> AsBool(x.reply)]

\* Client::mset_nx(models): MSETNX of models.collect().
MSetNxResult(t, st, models) ==
    LET x == Request(t, MSetNxCommand, st, Collect(models))
    IN  [store |-> x.store, ret |-> AsBool(x.reply)]

\* Client::mset(models): MSET of models.collect().
MSetResult(t, st, models) ==
    LET x == Request(t, "MSET", st, Collect(models))
    IN  [store |-> x.store, ret |-> AsString(x.reply)]

RedisOthersIdle == UNCHANGED <<vars, connectVars, scyllaVars, paramVars, fileVars>>

Del(k, t) ==
    /\ redis_pc = "idle"
    /\ LET x == DelResult(t, store, k)
       IN  /\ store' = x.store
           /\ redis_last' = RedisCall("del", k, x.ret, x.store, t)
    /\ UNCHANGED <<redis_pc, mdel_keys, mdel_results>>
    /\ RedisOthersIdle

SetNx(m, t) ==
    /\ redis_pc = "idle"
    /\ LET x == SetNxResult(t, store, m)
       IN  /\ store' = x.store
           /\ redis_last' = RedisCall("set_nx", m, x.ret, x.store, t)
    /\ UNCHANGED <<redis_pc, mdel_keys, mdel_results>>
    /\ RedisOthersIdle

MSet(models, t) ==
    /\ redis_pc = "idle"
    /\ LET x == MSetResult(t, store, models)
       IN  /\ store' = x.store
           /\ redis_last' = RedisCall("mset", models, x.ret, x.store, t)
    /\ UNCHANGED <<redis_pc, mdel_keys, mdel_results>>
    /\ RedisOthersIdle

MSetNx(models, t) ==
    /\ redis_pc = "idle"
    /\ LET x == MSetNxResult(t, store, models)
       IN  /\ store' = x.store
           /\ redis_last' = RedisCall("mset_nx", models, x.ret, x.store, t)
    /\ UNCHANGED <<redis_pc, mdel_keys, mdel_results>>
    /\ RedisOthersIdle

\* mdel: one del future per key, then join_all.
MdelCall(keys) ==
    /\ redis_pc = "idle"
    /\ redis_pc' = "mdel"
    /\ mdel_keys' = MapKeys(keys)
    /\ mdel_results' = [n \in 1..Len(keys) |-> "pending"]
    /\ redis_last' = RedisCall("mdel_running", keys, Err, store, "ok")
    /\ UNCHANGED store
    /\ RedisOthersIdle

\* join_all drives the futures concurrently: any pending del runs next.
MdelDel(t) ==
    /\ redis_pc = "mdel"
    /\ \E n \in DOMAIN mdel_keys :
           /\ mdel_results[n] = "pending"
           /\ LET x == DelResult(t, store, mdel_keys[n])
              IN  /\ store' = x.store
                  /\ mdel_results' =
                         [mdel_results EXCEPT
                             ![n] = IF ~x.ret.ok THEN "err"
                                    ELSE IF x.ret.val THEN "true" ELSE "false"]
    /\ UNCHANGED <<redis_pc, mdel_keys, redis_last>>
    /\ RedisOthersIdle

MdelReturn ==
    /\ redis_pc = "mdel"
    /\ \A n \in 1..Len(mdel_results) : mdel_results[n] # "pending"
    /\ redis_last' =
           [redis_last EXCEPT
               !.op = "mdel",
               !.ret = Ok(MdelCount(mdel_results)),
               !.after = store,
               !.transport =
                   IF \E n \in 1..Len(mdel_results) : mdel_results[n] = "err"
                   THEN "failed" ELSE "ok"]
    /\ redis_pc' = "idle"
    /\ mdel_keys' = <<>>
    /\ mdel_results' = <<>>
    /\ UNCHANGED store
    /\ RedisOthersIdle

\* The server holds any values when the client starts.
InitRedis ==
    /\ StreamIdle
    /\ ConnectIdle
    /\ ScyllaIdle
    /\ ParamsIdle
    /\ FileIdle
    /\ store \in [Keys -> Values \cup {Nil}]
    /\ redis_pc = "idle"
    /\ mdel_keys = <<>>
    /\ mdel_results = <<>>
    /\ redis_last = NoCall

NextRedis ==
    \/ \E k \in Keys, t \in Transports : Del(k, t)
    \/ \E m \in Models, t \in Transports : SetNx(m, t)
    \/ \E models \in ModelLists, t \in Transports : MSet(models, t)
    \/ \E models \in ModelLists, t \in Transports : MSetNx(models, t)
    \/ \E keys \in KeyLists : MdelCall(keys)
    \/ \E t \in Transports : MdelDel(t)
    \/ MdelReturn

SpecRedis == InitRedis /\ [][NextRedis]_allVars

\* ------------------------------------------------- redis calls as wholes
\* mdel's dels one after the other, each of them answered.
RECURSIVE MdelDels(_, _)
MdelDels(st, keys) ==
    IF keys = <<>> THEN [store |-> st, results |-> <<>>]
    ELSE LET x == DelResult("ok", st, keys[1])
             rest == MdelDels(x.store, Tail(keys))
         IN  [store |-> rest.store,
              results |-> <<IF x.ret.val THEN "true" ELSE "false">> \o rest.results]

\* One whole mdel(keys) whose dels are all answered.
MdelAnswered(st, keys) ==
    LET r == MdelDels(st, MapKeys(keys))
    IN  [store |-> r.store, ret |-> Ok(MdelCount(r.results))]

Range(seq) == {seq[n] : n \in DOMAIN seq}
Distinct(seq) == \A m, n \in DOMAIN seq : m # n => seq[m] # seq[n]
\* The keys of `keys` that hold a value in st.
Existing(st, keys) == {k \in Range(keys) : st[k] # Nil}
SameExcept(st, su, ks) == \A k \in Keys \ ks : st[k] = su[k]

C18_SetNxNeverOverwrites ==
    redis_last.op = "set_nx" =>
        LET m == redis_last.arg
            before == redis_last.before
            after == redis_last.after
            ret == redis_last.ret
        IN  /\ SameExcept(before, after, {m.key})
            /\ before[m.key] # Nil =>
                   /\ after[m.key] = before[m.key]
                   /\ ret.ok => ret.val = FALSE
            /\ (before[m.key] = Nil /\ ret.ok) =>
                   /\ ret.val = TRUE
                   /\ after[m.key] = m.value
            /\ (redis_last.transport = "ok" /\ ModelOk(m)) => ret.ok
            /\ ~ModelOk(m) => ~ret.ok /\ after = before

\* set_nx of another value on a key that holds one: false, value kept.
C18_Witness ==
    /\ redis_last.op = "set_nx"
    /\ redis_last.arg = [key |-> "a", keyed |-> TRUE, value |-> "v2"]
    /\ redis_last.before["a"] = "v1"
    /\ redis_last.ret = Ok(FALSE)
    /\ store["a"] = "v1"

ModelKeys(models) == [n \in DOMAIN models |-> models[n].key]

\* C19. mset_nx(models), for models of distinct keys, is all-or-nothing: it
\* returns true, and has then stored every model's pair, only when none of
\* the models' keys exists; if one of the keys exists it returns false and
\* no key's value changes.
C19_MSetNxAllOrNothing ==
    (redis_last.op = "mset_nx" /\ redis_last.ret.ok
        /\ Distinct(ModelKeys(redis_last.arg))) =>
        LET models == redis_last.arg
            before == redis_last.before
            after == redis_last.after
            exists == Existing(before, ModelKeys(models)) # {}
        IN  /\ redis_last.ret.val = ~exists
            /\ redis_last.ret.val =>
                   \A n \in DOMAIN models : after[models[n].key] = models[n].value
            /\ exists => after = before
            /\ SameExcept(before, after, Range(ModelKeys(models)))

\* The positions of the models whose key() and value() both succeed.
Good(models) == {n \in DOMAIN models : ModelOk(models[n])}
\* pairs holds, in input order, one pair for each good model and no other.
CollectsGood(models, pairs) ==
    /\ Len(pairs) = Cardinality(Good(models))
    /\ \E at \in [DOMAIN pairs -> Good(models)] :
           /\ \A n, m \in DOMAIN pairs : n < m => at[n] < at[m]
           /\ \A n \in DOMAIN pairs :
                  pairs[n] = <<models[at[n]].key, models[at[n]].value>>
\* The keys the good models write.
GoodKeys(models) == {models[n].key : n \in Good(models)}
IsMSet == redis_last.op \in {"mset", "mset_nx"}
\* The command left out every failing model: only keys of good models
\* changed, and a key that took a value took a good model's value.
FailingLeftOut ==
    LET models == redis_last.arg
        before == redis_last.before
        after == redis_last.after
    IN  /\ SameExcept(before, after, GoodKeys(models))
        /\ \A k \in GoodKeys(models) :
               after[k] # before[k] =>
                   \E n \in Good(models) :
                       models[n].key = k /\ models[n].value = after[k]

Ids == {"i1", "i2"}
Names == {"n1", "n2"}
Rows == [id : Ids, name : Names]
RowLists == {<<>>} \cup {<<r>> : r \in Rows} \cup {<<r, q>> : r, q \in Rows}
\* chunk_size of insert_many / delete_many, at least 1.
ChunkSizes == {1, 2}
\* What a find query selects: the rows whose id is in the set.
Queries == SUBSET Ids

NoRow == [id |-> Nil, name |-> Nil]
Absent == [some |-> FALSE, row |-> NoRow]
Present(row) == [some |-> TRUE, row |-> row]
Unit == "unit"

RowAt(tbl, id) == [id |-> id, name |-> tbl[id]]
\* INSERT writes the row under its primary key; DELETE removes the row with
\* the entity's primary key.
InsertRow(tbl, e) == [tbl EXCEPT ![e.id] = e.name]
DeleteRow(tbl, e) == [tbl EXCEPT ![e.id] = Nil]

RECURSIVE InsertRows(_, _)
InsertRows(tbl, rows) ==
    IF rows = <<>> THEN tbl ELSE InsertRows(InsertRow(tbl, rows[1]), Tail(rows))
RECURSIVE DeleteRows(_, _)
DeleteRows(tbl, rows) ==
    IF rows = <<>> THEN tbl ELSE DeleteRows(DeleteRow(tbl, rows[1]), Tail(rows))

\* get: the ModelRow query gives the row, or Err when there is none.
GetResult(ok, tbl, id) ==
    IF ~ok \/ tbl[id] = Nil THEN Err ELSE Ok(RowAt(tbl, id))

\* get_optional: the OptionalModelRow query gives Some(row) or None.
GetOptionalAsGet(ok, tbl, id) ==
    IF ~ok \/ tbl[id] = Nil THEN Err ELSE Ok(Present(RowAt(tbl, id)))
GetOptionalResult(ok, tbl, id) ==
    IF ~ok THEN Err
    ELSE IF tbl[id] = Nil THEN Ok(Absent) ELSE Ok(Present(RowAt(tbl, id)))

\* count: `self.stream(query).await?.count().await`, one element per row.
CountResult(ok, tbl, query) ==
    IF ~ok THEN Err ELSE Ok(Cardinality({id \in query : tbl[id] # Nil}))

\* insert / delete: `self.insert_query(entity.insert()).await?; Ok(())`
InsertResult(ok, tbl, e) ==
    IF ok THEN [table |-> InsertRow(tbl, e), ret |-> Ok(Unit)]
    ELSE [table |-> tbl, ret |-> Err]
DeleteResult(ok, tbl, e) ==
    IF ok THEN [table |-> DeleteRow(tbl, e), ret |-> Ok(Unit)]
    ELSE [table |-> tbl, ret |-> Err]

Min(a, b) == IF a <= b THEN a ELSE b
\* chunked_insert / chunked_delete: the next chunk_size rows, one batch.
Chunk(rows, at, size) == SubSeq(rows, at + 1, Min(at + size, Len(rows)))

ScyllaCall(op, arg, ret, tbl) ==
    [op |-> op, arg |-> arg, ret |-> ret, before |-> table, after |-> tbl]

ScyllaOthersIdle == UNCHANGED <<vars, connectVars, redisVars, paramVars, fileVars>>
NoBatch == UNCHANGED <<scylla_pc, many_rows, many_size, many_at>>

Insert(e, ok) ==
    /\ scylla_pc = "idle"
    /\ LET x == InsertResult(ok, table, e)
       IN  /\ table' = x.table
           /\ scylla_last' = ScyllaCall("insert", e, x.ret, x.table)
    /\ NoBatch
    /\ ScyllaOthersIdle

Delete(e, ok) ==
    /\ scylla_pc = "idle"
    /\ LET x == DeleteResult(ok, table, e)
       IN  /\ table' = x.table
           /\ scylla_last' = ScyllaCall("delete", e, x.ret, x.table)
    /\ NoBatch
    /\ ScyllaOthersIdle

\* get(Tst::find_by_primary_key_value(id))
Get(id, ok) ==
    /\ scylla_pc = "idle"
    /\ scylla_last' = ScyllaCall("get", id, GetResult(ok, table, id), table)
    /\ UNCHANGED table
    /\ NoBatch
    /\ ScyllaOthersIdle

GetOptional(id, ok) ==
    /\ scylla_pc = "idle"
    /\ scylla_last' =
           ScyllaCall("get_optional", id, GetOptionalResult(ok, table, id), table)
    /\ UNCHANGED table
    /\ NoBatch
    /\ ScyllaOthersIdle

Count(query, ok) ==
    /\ scylla_pc = "idle"
    /\ scylla_last' = ScyllaCall("count", query, CountResult(ok, table, query), table)
    /\ UNCHANGED table
    /\ NoBatch
    /\ ScyllaOthersIdle

\* The chunked call begins: nothing sent yet.
ManyBegin(op, rows, size) ==
    /\ scylla_pc' = op
    /\ many_rows' = rows
    /\ many_size' = size
    /\ many_at' = 0
    /\ scylla_last' = ScyllaCall("running", rows, Err, table)
    /\ UNCHANGED table

\* insert_many(iter, chunk_size)
InsertManyCall(rows, size) ==
    /\ scylla_pc = "idle"
    /\ ManyBegin("insert_many", rows, size)
    /\ ScyllaOthersIdle

\* delete_many(iter, chunk_size)
DeleteManyCall(rows, size) ==
    /\ scylla_pc = "idle"
    /\ ManyBegin("delete_many", rows, size)
    /\ ScyllaOthersIdle

\* One batch of the chunked call: on Err the call returns it, with the
\* chunks before this one already written.
ManyChunk(ok) ==
    /\ scylla_pc \in {"insert_many", "delete_many"}
    /\ many_at < Len(many_rows)
    /\ LET chunk == Chunk(many_rows, many_at, many_size)
           tbl == IF ~ok THEN table
                  ELSE IF scylla_pc = "insert_many" THEN InsertRows(table, chunk)
                  ELSE DeleteRows(table, chunk)
       IN  /\ table' = tbl
           /\ IF ok
              THEN /\ many_at' = many_at + Len(chunk)
                   /\ UNCHANGED <<scylla_pc, many_rows, many_size, scylla_last>>
              ELSE /\ scylla_last' = [scylla_last EXCEPT !.op = scylla_pc, !.after = tbl]
                   /\ scylla_pc' = "idle"
                   /\ many_rows' = <<>>
                   /\ many_size' = 0
                   /\ many_at' = 0
    /\ ScyllaOthersIdle

ManyReturn ==
    /\ scylla_pc \in {"insert_many", "delete_many"}
    /\ many_at >= Len(many_rows)
    /\ scylla_last' =
           [scylla_last EXCEPT !.op = scylla_pc, !.ret = Ok(Unit), !.after = table]
    /\ scylla_pc' = "idle"
    /\ many_rows' = <<>>
    /\ many_size' = 0
    /\ many_at' = 0
    /\ UNCHANGED table
    /\ ScyllaOthersIdle

\* The table holds any rows when the client starts.
InitScylla ==
    /\ StreamIdle
    /\ ConnectIdle
    /\ RedisIdle
    /\ ParamsIdle
    /\ FileIdle
    /\ table \in [Ids -> Names \cup {Nil}]
    /\ scylla_pc = "idle"
    /\ many_rows = <<>>
    /\ many_size = 0
    /\ many_at = 0
    /\ scylla_last = NoCall

NextScylla ==
    \/ \E e \in Rows, ok \in BOOLEAN : Insert(e, ok)
    \/ \E e \in Rows, ok \in BOOLEAN : Delete(e, ok)
    \/ \E id \in Ids, ok \in BOOLEAN : Get(id, ok)
    \/ \E id \in Ids, ok \in BOOLEAN : GetOptional(id, ok)
    \/ \E query \in Queries, ok \in BOOLEAN : Count(query, ok)
    \/ \E rows \in RowLists, size \in ChunkSizes : InsertManyCall(rows, size)
    \/ \E rows \in RowLists, size \in ChunkSizes : DeleteManyCall(rows, size)
    \/ \E ok \in BOOLEAN : ManyChunk(ok)
    \/ ManyReturn

SpecScylla == InitScylla /\ [][NextScylla]_allVars

\* ------------------------------------------------ scylla calls as wholes
\* One whole insert_many / delete_many whose batches all succeed, from the
\* row at index `at` on.
RECURSIVE ManyWhole(_, _, _, _, _)
ManyWhole(op, tbl, rows, size, at) ==
    IF at >= Len(rows) THEN tbl
    ELSE LET chunk == Chunk(rows, at, size)
         IN  ManyWhole(op,
                       IF op = "insert_many" THEN InsertRows(tbl, chunk)
                       ELSE DeleteRows(tbl, chunk),
                       rows, size, at + Len(chunk))

IdsOf(rows) == {rows[n].id : n \in DOMAIN rows}
DistinctIds(rows) == \A m, n \in DOMAIN rows : m # n => rows[m].id # rows[n].id

\* get and get_optional, called now on the table tbl, find the row e.
FindsRow(tbl, e) ==
    /\ GetResult(TRUE, tbl, e.id).ok
    /\ GetResult(TRUE, tbl, e.id).val = e
    /\ GetOptionalResult(TRUE, tbl, e.id).ok
    /\ GetOptionalResult(TRUE, tbl, e.id).val = Present(e)

\* get returns Err and get_optional Ok(None).
FindsNone(tbl, id) ==
    /\ ~GetResult(TRUE, tbl, id).ok
    /\ GetOptionalResult(TRUE, tbl, id).ok
    /\ GetOptionalResult(TRUE, tbl, id).val = Absent

CountIs(tbl, query, n) ==
    CountResult(TRUE, tbl, query).ok /\ CountResult(TRUE, tbl, query).val = n

Consistencies == {"One", "Quorum", "LocalQuorum"}
Timeouts == {Nil, "5s"}
Timestamps == {Nil, "t1"}
CrudParamsSet == [consistency : Consistencies, timeout : Timeouts, timestamp : Timestamps]
\* E::batch(): a fresh batch.
NewBatch == [consistency |-> "unset", timeout |-> Nil, timestamp |-> Nil]
\* The queries callers hand in: built by the model's find / insert / update /
\* delete helpers, optionally with options already set on them.
GivenQueries ==
    [consistency : {"unset", "One"}, timeout : Timeouts, timestamp : Timestamps]
QueryOps == {"get", "get_optional", "stream", "update", "insert", "delete"}
BatchOps == {"update_many", "insert_many", "delete_many"}

\* CrudParams::apply_batch: .consistency(..).timestamp(..)
ApplyBatch(params, batch) ==
    [batch EXCEPT !.consistency = params.consistency,
                  !.timestamp = params.timestamp]

\* CrudParams::apply_query: .consistency(..).timeout(..).timestamp(..)
ApplyQuery(params, query) ==
    [query EXCEPT !.consistency = params.consistency,
                  !.timeout = params.timeout,
                  !.timestamp = params.timestamp]

\* Client::batch_apply_params / query_apply_params: `if let Some(params)`.
BatchApplyParams(batch) ==
    IF crud_params.some THEN ApplyBatch(crud_params.val, batch) ELSE batch
QueryApplyParams(query) ==
    IF crud_params.some THEN ApplyQuery(crud_params.val, query) ELSE query

Statement(op, kind, given, options) ==
    [op |-> op, kind |-> kind, params |-> crud_params, given |-> given,
     options |-> options]

ParamsOthersIdle == UNCHANGED <<vars, connectVars, redisVars, scyllaVars, fileVars>>

\* with_params: `_ = self.crud_params.insert(params.into()); self`
WithParams(params) ==
    /\ crud_params' = [some |-> TRUE, val |-> params]
    /\ UNCHANGED sent
    /\ ParamsOthersIdle

\* get, get_optional, stream (and count through it), update_query,
\* insert_query, delete_query: `self.query_apply_params(query).execute(..)`
ExecuteQuery(op, query) ==
    /\ sent' = Statement(op, "query", query, QueryApplyParams(query))
    /\ UNCHANGED crud_params
    /\ ParamsOthersIdle

\* update_many, insert_many, delete_many:
\* `self.batch_apply_params(E::batch()).chunked_*(..)`
ExecuteBatch(op) ==
    /\ sent' = Statement(op, "batch", NewBatch, BatchApplyParams(NewBatch))
    /\ UNCHANGED crud_params
    /\ ParamsOthersIdle

InitParams ==
    /\ StreamIdle
    /\ ConnectIdle
    /\ RedisIdle
    /\ ScyllaIdle
    /\ ParamsIdle
    /\ FileIdle

NextParams ==
    \/ \E params \in CrudParamsSet : WithParams(params)
    \/ \E op \in QueryOps, query \in GivenQueries : ExecuteQuery(op, query)
    \/ \E op \in BatchOps : ExecuteBatch(op)

SpecParams == InitParams /\ [][NextParams]_allVars

HasParams(options, params) ==
    /\ options.consistency = params.consistency
    /\ options.timeout = params.timeout
    /\ options.timestamp = params.timestamp

\* Without CrudParams the statement is executed as it was given.
UnconfiguredUnchanged ==
    (sent.op # "none" /\ ~sent.params.some) => sent.options = sent.given

\* With CrudParams a single-row query carries all three parameters.
QueryParamsApplied ==
    (sent.op # "none" /\ sent.params.some /\ sent.kind = "query")
        => HasParams(sent.options, sent.params.val)

\* With CrudParams a batch carries all three parameters.
BatchParamsApplied ==
    (sent.op # "none" /\ sent.params.some /\ sent.kind = "batch")
        => HasParams(sent.options, sent.params.val)

\* C21. With CrudParams configured every batch operation and every
\* single-row query runs with the configured consistency, timeout and
\* timestamp; without CrudParams the batch or query is executed unchanged.
C21_ParamsApplied ==
    /\ UnconfiguredUnchanged
    /\ QueryParamsApplied
    /\ BatchParamsApplied
\* ====================================== the scylla Client: execute_file
MaxText == 6         \* longest file text drawn, in characters
\* A file is a text over letters, whitespace and the semicolon.
Chars == {"a", "b", " ", ";"}
RECURSIVE TextsUpTo(_)
TextsUpTo(n) ==
    IF n = 0 THEN {<<>>}
    ELSE LET shorter == TextsUpTo(n - 1)
         IN  shorter \cup {Append(t, c) : t \in {s \in shorter : Len(s) = n - 1},
                                          c \in Chars}
Texts == TextsUpTo(MaxText)

\* str::split(";"): the fragments between semicolons, empty ones included;
\* a text with k semicolons gives k + 1 fragments.
RECURSIVE Split(_)
Split(text) ==
    IF \A n \in DOMAIN text : text[n] # ";" THEN <<text>>
    ELSE LET at == CHOOSE n \in DOMAIN text :
                       text[n] = ";" /\ \A m \in 1..(n - 1) : text[m] # ";"
         IN  <<SubSeq(text, 1, at - 1)>> \o Split(SubSeq(text, at + 1, Len(text)))

\* str::trim(): without leading and trailing whitespace.
RECURSIVE Trim(_)
Trim(q) ==
    IF q = <<>> THEN q
    ELSE IF Head(q) = " " THEN Trim(Tail(q))
    ELSE IF q[Len(q)] = " " THEN Trim(SubSeq(q, 1, Len(q) - 1))
    ELSE q

\* `raw_queries.split(";").map(|query| query.trim()).collect::<Vec<&str>>()`
FileQueries(text) ==
    LET fragments == Split(text)
    IN  [n \in DOMAIN fragments |-> Trim(fragments[n])]

\* `self.execute(query, &[]).await?`: on Err the `?` returns it.
ExecuteIgnoresErr(ok) == "running"
ExecuteThenTry(ok) == IF ok THEN "running" ELSE "Err"

FileOthersIdle == UNCHANGED <<vars, connectVars, redisVars, scyllaVars, paramVars>>

\* execute_file(filename): read_to_string(..).await, or panic.
ExecuteFileCall ==
    /\ file_result = "none"
    /\ \E text \in Texts, readable \in BOOLEAN :
           /\ file_text' = text
           /\ file_result' = IF readable THEN "running" ELSE "panic"
    /\ UNCHANGED <<file_at, executed>>
    /\ FileOthersIdle

\* `if query.is_empty() { continue; }`
ExecuteFileSkip ==
    /\ file_result = "running"
    /\ LET queries == FileQueries(file_text)
       IN  /\ file_at < Len(queries)
           /\ queries[file_at + 1] = <<>>
    /\ file_at' = file_at + 1
    /\ UNCHANGED <<file_text, executed, file_result>>
    /\ FileOthersIdle

\* `self.execute(query, &[]).await?`
ExecuteFileExecute(ok) ==
    /\ file_result = "running"
    /\ LET queries == FileQueries(file_text)
       IN  /\ file_at < Len(queries)
           /\ queries[file_at + 1] # <<>>
           /\ executed' = Append(executed, [query |-> queries[file_at + 1], ok |-> ok])
    /\ file_result' = ExecuteThenTry(ok)
    /\ file_at' = IF ok THEN file_at + 1 ELSE file_at
    /\ UNCHANGED file_text
    /\ FileOthersIdle

\* `Ok(())` after the loop.
ExecuteFileReturn ==
    /\ file_result = "running"
    /\ file_at = Len(FileQueries(file_text))
    /\ file_result' = "Ok"
    /\ UNCHANGED <<file_text, file_at, executed>>
    /\ FileOthersIdle

InitFile ==
    /\ StreamIdle
    /\ ConnectIdle
    /\ RedisIdle
    /\ ScyllaIdle
    /\ ParamsIdle
    /\ FileIdle

NextFile ==
    \/ ExecuteFileCall
    \/ ExecuteFileSkip
    \/ \E ok \in BOOLEAN : ExecuteFileExecute(ok)
    \/ ExecuteFileReturn

SpecFile == InitFile /\ [][NextFile]_allVars

\* The statements of a file: its fragments that are not empty once trimmed.
Statements(text) == SelectSeq(FileQueries(text), LAMBDA q : q # <<>>)
IsStatement(q) ==
    /\ q # <<>>
    /\ Head(q) # " "
    /\ q[Len(q)] # " "
    /\ \A n \in DOMAIN q : q[n] # ";"
ExecutedQueries == [n \in DOMAIN executed |-> executed[n].query]

\* C22. execute_file executes the file's semicolon-separated statements one
\* at a time in file order, skipping the fragments that are empty after
\* trimming, and stops at the first statement that fails: it returns that
\* error, the statements before it stay applied and the statements after it
\* are never executed.
C22_ExecuteFileStopsAtFirstError ==
    file_result \in {"running", "Ok", "Err"} =>
        LET statements == Statements(file_text)
        IN  /\ Len(executed) <= Len(statements)
            /\ ExecutedQueries = SubSeq(statements, 1, Len(executed))
            /\ \A n \in DOMAIN executed :
                   /\ IsStatement(executed[n].query)
                   /\ n < Len(executed) => executed[n].ok
            /\ file_result = "Ok" =>
                   /\ Len(executed) = Len(statements)
                   /\ \A n \in DOMAIN executed : executed[n].ok
            /\ file_result = "Err" =>
                   /\ executed # <<>>
                   /\ ~executed[Len(executed)].ok
            /\ file_result = "running" => \A n \in DOMAIN executed : executed[n].ok

\* "a;;b;a" cut short: a applied, b failed, the last statement never sent.
C22_Witness ==
    /\ file_result = "Err"
    /\ Len(Statements(file_text)) = 3
    /\ Len(FileQueries(file_text)) = 4
    /\ Len(executed) = 2
    /\ executed[1].ok

TypeOK ==
    /\ source \in Seq(Elems)
    /\ pos \in 0..Len(source)
    /\ per_page \in Nat
    /\ pc \in {"idle", "next_page", "next_page_break", "skip_page",
               "skip_page_break", "skip_pages"}
    /\ Len(log) <= MaxCalls
====
